---- MODULE Spec2Model ----
(***************************************************************************)
(* A model of modules/processor.py (process_combined_sheet and its        *)
(* helpers): the uploaded tables, the Quantity Model, the expansion by    *)
(* barcode, the groupby aggregation, the greedy transfer matcher and the  *)
(* annotation of the aggregated rows.                                     *)
(*                                                                         *)
(* Text is a sequence of one-character strings, so that splitting,        *)
(* stripping, digit filtering and concatenation are computed the way the  *)
(* code computes them.  The fixed phrases the code writes ("Transfer to ",*)
(* " x", the flag and action sentences) are kept as single elements.      *)
(* A missing cell (pandas NaN) is the value NaN below.                    *)
(*                                                                         *)
(* The descriptive columns (Product name, Brand, Sale Price and the       *)
(* Barcodes display string) are carried through the aggregation by        *)
(* 'first' / join; no quantity, transfer or flag reads them, and they are *)
(* left out of the rows.                                                  *)
(***************************************************************************)
EXTENDS Integers, Sequences, FiniteSets, TLC

VARIABLES
    pc,              \* the position inside process_combined_sheet
    uploaded_files,  \* argument: the uploaded tables
    params,          \* argument: DISPLAY_TARGET, BACKSTOCK_SAFETY, MIN_TRANSFER_QTY
    df,              \* the merged table: [columns, rows]
    rec,             \* the expanded records (one per barcode token)
    agg,             \* the aggregated rows, one per (Key, Branch)
    transfers,       \* the transfer instructions emitted so far
    ki,              \* index of the next key of agg['Key'].unique() to match
    final,           \* the returned per-branch table
    error            \* the exception the call ended with, or NoError

vars == <<pc, uploaded_files, params, df, rec, agg, transfers, ki, final, error>>

-----------------------------------------------------------------------------
(* Text *)

NaN == <<"NaN">>

isna(v) == v = NaN

Min(a, b) == IF a <= b THEN a ELSE b

Max(a, b) == IF a >= b THEN a ELSE b

DigitChars == <<"0", "1", "2", "3", "4", "5", "6", "7", "8", "9">>

IsDigit(c) == \E i \in 1..10 : DigitChars[i] = c

DigitValue(c) == (CHOOSE i \in 1..10 : DigitChars[i] = c) - 1

\* Code points of the characters the inputs are built from (Python compares
\* strings by code point).
CodePoint(c) ==
    CASE c = " " -> 32
      [] c = "," -> 44
      [] c = "-" -> 45
      [] c = "/" -> 47
      [] IsDigit(c) -> 48 + DigitValue(c)
      [] c = ";" -> 59
      [] c = "A" -> 65
      [] c = "B" -> 66
      [] c = "C" -> 67
      [] c = "D" -> 68
      [] c = "\\" -> 92
      [] c = "a" -> 97
      [] c = "b" -> 98
      [] c = "c" -> 99
      [] c = "d" -> 100
      [] c = "x" -> 120
      [] c = "|" -> 124

RECURSIVE StrLess(_, _)
\* s < t for Python strings
StrLess(s, t) ==
    IF t = <<>> THEN FALSE
    ELSE IF s = <<>> THEN TRUE
    ELSE IF Head(s) = Head(t) THEN StrLess(Tail(s), Tail(t))
    ELSE CodePoint(Head(s)) < CodePoint(Head(t))

RECURSIVE lstrip(_, _)
\* str.lstrip(chars)
lstrip(s, chars) ==
    IF s # <<>> /\ Head(s) \in chars THEN lstrip(Tail(s), chars) ELSE s

RECURSIVE rstrip(_, _)
\* str.rstrip(chars)
rstrip(s, chars) ==
    IF s # <<>> /\ s[Len(s)] \in chars THEN rstrip(SubSeq(s, 1, Len(s) - 1), chars) ELSE s

Whitespace == {" "}

\* str.strip()
strip(s) == rstrip(lstrip(s, Whitespace), Whitespace)

LowerChar(c) ==
    CASE c = "A" -> "a"
      [] c = "B" -> "b"
      [] c = "C" -> "c"
      [] c = "D" -> "d"
      [] OTHER -> c

\* str.lower()
lower(s) == [i \in 1..Len(s) |-> LowerChar(s[i])]

RECURSIVE StrOfNat(_)
StrOfNat(n) ==
    IF n < 10 THEN <<DigitChars[n + 1]>>
    ELSE StrOfNat(n \div 10) \o <<DigitChars[(n % 10) + 1]>>

\* str(n) of an integer, as the f-strings and the uploaded cells write it
StrOfInt(n) == IF n < 0 THEN <<"-">> \o StrOfNat(-n) ELSE StrOfNat(n)

RECURSIVE NatOfStr(_, _)
NatOfStr(s, acc) ==
    IF s = <<>> THEN acc ELSE NatOfStr(Tail(s), 10 * acc + DigitValue(Head(s)))

IsDigits(s) == s # <<>> /\ \A i \in 1..Len(s) : IsDigit(s[i])

\* pd.to_numeric(cell, errors='coerce').fillna(0).astype(int) of one cell:
\* an integer literal gives its value, anything else (NaN, text) gives 0.
to_numeric(cell) ==
    IF isna(cell) THEN 0
    ELSE IF IsDigits(cell) THEN NatOfStr(cell, 0)
    ELSE IF cell # <<>> /\ Head(cell) = "-" /\ IsDigits(Tail(cell)) THEN -NatOfStr(Tail(cell), 0)
    ELSE 0

-----------------------------------------------------------------------------
(* Helpers of processor.py *)

Separators == {";", "|", "/", "\\"}

\* txt.replace(sep, ',') for each separator
ReplaceSeparators(txt) == [i \in 1..Len(txt) |-> IF txt[i] \in Separators THEN "," ELSE txt[i]]

RECURSIVE SplitOn(_, _, _)
\* txt.split(sep): cur is the piece being read
SplitOn(txt, sep, cur) ==
    IF txt = <<>> THEN <<cur>>
    ELSE IF Head(txt) = sep THEN <<cur>> \o SplitOn(Tail(txt), sep, <<>>)
    ELSE SplitOn(Tail(txt), sep, Append(cur, Head(txt)))

RECURSIVE StripNonEmpty(_)
\* [p.strip() for p in pieces if p.strip() != '']
StripNonEmpty(pieces) ==
    IF pieces = <<>> THEN <<>>
    ELSE LET p == strip(Head(pieces))
         IN  (IF p # <<>> THEN <<p>> ELSE <<>>) \o StripNonEmpty(Tail(pieces))

split_barcodes(val) ==
    IF isna(val) THEN <<>>
    ELSE StripNonEmpty(SplitOn(ReplaceSeparators(val), ",", <<>>))

RECURSIVE KeepDigits(_)
KeepDigits(s) ==
    IF s = <<>> THEN <<>>
    ELSE (IF IsDigit(Head(s)) THEN <<Head(s)>> ELSE <<>>) \o KeepDigits(Tail(s))

digits_only(s) == lstrip(KeepDigits(s), {"0"})

normalize_key(bc) ==
    LET d == digits_only(bc)
    IN  IF d # <<>> THEN d ELSE lower(strip(bc))

-----------------------------------------------------------------------------
(* Quantity Model (lines 66-87), for one row with SystemQty x *)

DisplayQty(x, DISPLAY_TARGET) == Min(x, DISPLAY_TARGET)

Backstock(x, DISPLAY_TARGET) == x - DisplayQty(x, DISPLAY_TARGET)

Need_display(x, DISPLAY_TARGET) == Max(DISPLAY_TARGET - DisplayQty(x, DISPLAY_TARGET), 0)

Need_safety(x, DISPLAY_TARGET, BACKSTOCK_SAFETY) == Max((DISPLAY_TARGET + BACKSTOCK_SAFETY) - x, 0)

Need(x, DISPLAY_TARGET, BACKSTOCK_SAFETY) ==
    Max(Need_display(x, DISPLAY_TARGET), Need_safety(x, DISPLAY_TARGET, BACKSTOCK_SAFETY))

SurplusOfSystemQty(x, DISPLAY_TARGET, BACKSTOCK_SAFETY) == Max(x - BACKSTOCK_SAFETY, 0)

\* line 87
Surplus(x, DISPLAY_TARGET, BACKSTOCK_SAFETY) == Max(Backstock(x, DISPLAY_TARGET) - BACKSTOCK_SAFETY, 0)

\* One row of df with the computed columns added.
WithQuantities(r, p) ==
    LET x == to_numeric(r.available_quantity)
    IN  [branch_name |-> r.branch_name,
         barcodes    |-> r.barcodes,
         available_quantity |-> r.available_quantity,
         SystemQty   |-> x,
         DisplayQty  |-> DisplayQty(x, p.DISPLAY_TARGET),
         Backstock   |-> Backstock(x, p.DISPLAY_TARGET),
         Need        |-> Need(x, p.DISPLAY_TARGET, p.BACKSTOCK_SAFETY),
         Surplus     |-> Surplus(x, p.DISPLAY_TARGET, p.BACKSTOCK_SAFETY)]

-----------------------------------------------------------------------------
(* Expansion by barcode (lines 89-122) *)

ExpandedRecord(r, bc, key) ==
    [Branch |-> r.branch_name, Barcodes |-> bc, Key |-> key,
     SystemQty |-> r.SystemQty, DisplayQty |-> r.DisplayQty, Backstock |-> r.Backstock,
     Need |-> r.Need, Surplus |-> r.Surplus]

\* The records one row of df gives: one per split token, or one with an empty
\* barcode and key when there is no token.
ExpandRow(r) ==
    LET bcs == split_barcodes(r.barcodes)
    IN  IF bcs = <<>> THEN <<ExpandedRecord(r, <<>>, <<>>)>>
        ELSE [i \in 1..Len(bcs) |-> ExpandedRecord(r, bcs[i], normalize_key(bcs[i]))]

RECURSIVE ExpandRows(_)
ExpandRows(rows) ==
    IF rows = <<>> THEN <<>> ELSE ExpandRow(Head(rows)) \o ExpandRows(Tail(rows))

-----------------------------------------------------------------------------
(* Aggregation per Key x Branch (lines 129-139) *)

Group(r) == [Key |-> r.Key, Branch |-> r.Branch]

\* groupby leaves out the rows whose group key is NaN (dropna); Key is always
\* a string, Branch is NaN when the branch cell is empty or missing.
GroupsOf(records) ==
    {Group(records[i]) : i \in {j \in 1..Len(records) : ~isna(records[j].Branch)}}

GroupLess(g, h) ==
    \/ StrLess(g.Key, h.Key)
    \/ g.Key = h.Key /\ StrLess(g.Branch, h.Branch)

RECURSIVE SortGroups(_)
SortGroups(S) ==
    IF S = {} THEN <<>>
    ELSE LET m == CHOOSE g \in S : \A h \in S \ {g} : GroupLess(g, h)
         IN  <<m>> \o SortGroups(S \ {m})

RECURSIVE FirstSeenGroups(_, _)
\* The distinct groups in the order the records first show them.
FirstSeenGroups(records, seen) ==
    IF records = <<>> THEN <<>>
    ELSE LET g == Group(Head(records))
         IN  IF isna(g.Branch) \/ g \in seen THEN FirstSeenGroups(Tail(records), seen)
             ELSE <<g>> \o FirstSeenGroups(Tail(records), seen \cup {g})

GroupOrderEncounter(records) == FirstSeenGroups(records, {})

\* groupby(['Key', 'Branch'], as_index=False) sorts the groups by their keys
\* (sort=True is the default).
GroupOrder(records) == SortGroups(GroupsOf(records))

RECURSIVE SumOver(_, _, _)
\* the 'sum' of one column over the records of group g
SumOver(records, g, col) ==
    IF records = <<>> THEN 0
    ELSE (IF Group(Head(records)) = g THEN Head(records)[col] ELSE 0)
         + SumOver(Tail(records), g, col)

AggregatedRow(records, g) ==
    [Key |-> g.Key, Branch |-> g.Branch,
     SystemQty  |-> SumOver(records, g, "SystemQty"),
     DisplayQty |-> SumOver(records, g, "DisplayQty"),
     Backstock  |-> SumOver(records, g, "Backstock"),
     Need       |-> SumOver(records, g, "Need"),
     Surplus    |-> SumOver(records, g, "Surplus")]

Aggregated(records) ==
    LET gs == GroupOrder(records)
    IN  [i \in 1..Len(gs) |-> AggregatedRow(records, gs[i])]

RECURSIVE Unique(_, _)
\* Series.unique(): the distinct values in order of appearance
Unique(s, seen) ==
    IF s = <<>> THEN <<>>
    ELSE IF Head(s) \in seen THEN Unique(Tail(s), seen)
    ELSE <<Head(s)>> \o Unique(Tail(s), seen \cup {Head(s)})

AggKeys(a) == Unique([i \in 1..Len(a) |-> a[i].Key], {})

-----------------------------------------------------------------------------
(* Greedy transfer allocation (lines 142-159) *)

\* sub = agg[agg['Key'] == key]
SubOf(a, key) == SelectSeq(a, LAMBDA r : r.Key = key)

RECURSIVE SourcesOf(_, _)
\* line 146: the rows with Surplus >= MIN_TRANSFER_QTY, in the order of sub
SourcesOf(sub, MIN_TRANSFER_QTY) ==
    IF sub = <<>> THEN <<>>
    ELSE (IF Head(sub).Surplus >= MIN_TRANSFER_QTY
          THEN <<[branch |-> Head(sub).Branch, surplus |-> Head(sub).Surplus]>>
          ELSE <<>>) \o SourcesOf(Tail(sub), MIN_TRANSFER_QTY)

RECURSIVE DestsOf(_)
\* line 147: the rows with Need >= 1, in the order of sub
DestsOf(sub) ==
    IF sub = <<>> THEN <<>>
    ELSE (IF Head(sub).Need >= 1
          THEN <<[branch |-> Head(sub).Branch, need |-> Head(sub).Need]>>
          ELSE <<>>) \o DestsOf(Tail(sub))

TransferQtyUncapped(surplus, need) == surplus

\* line 153
TransferQty(surplus, need) == Min(surplus, need)

EmitAllowedAnyPositive(qty, MIN_TRANSFER_QTY) == qty >= 1

\* line 154
EmitAllowed(qty, MIN_TRANSFER_QTY) == qty >= MIN_TRANSFER_QTY

BreakWhenAfterFirst(need) == TRUE

\* line 158
BreakWhen(need) == need <= 0

RECURSIVE ScanSources(_, _, _, _, _, _, _)
\* The inner loop (lines 150-159) from source i on, for destination d with
\* `need` left: the sources and the instructions when the loop ends.
ScanSources(key, d, need, sources, i, out, MIN_TRANSFER_QTY) ==
    IF i > Len(sources) THEN [sources |-> sources, out |-> out]
    ELSE IF sources[i].surplus <= 0
         THEN ScanSources(key, d, need, sources, i + 1, out, MIN_TRANSFER_QTY)
    ELSE LET qty   == TransferQty(sources[i].surplus, need)
             emit  == EmitAllowed(qty, MIN_TRANSFER_QTY)
             out2  == IF emit
                      THEN Append(out, [Key |-> key, From |-> sources[i].branch,
                                        To |-> d.branch, Qty |-> qty])
                      ELSE out
             srcs2 == IF emit
                      THEN [sources EXCEPT ![i].surplus = sources[i].surplus - qty]
                      ELSE sources
             need2 == IF emit THEN need - qty ELSE need
         IN  IF BreakWhen(need2) THEN [sources |-> srcs2, out |-> out2]
             ELSE ScanSources(key, d, need2, srcs2, i + 1, out2, MIN_TRANSFER_QTY)

RECURSIVE ScanDests(_, _, _, _, _, _)
\* The outer loop (line 148) from destination j on.
ScanDests(key, dests, j, sources, out, MIN_TRANSFER_QTY) ==
    IF j > Len(dests) THEN out
    ELSE LET r == ScanSources(key, dests[j], dests[j].need, sources, 1, out, MIN_TRANSFER_QTY)
         IN  ScanDests(key, dests, j + 1, r.sources, r.out, MIN_TRANSFER_QTY)

\* The instructions one key adds to `out` (one iteration of the loop of line 143).
MatchOneKey(a, key, out, MIN_TRANSFER_QTY) ==
    LET sub == SubOf(a, key)
    IN  ScanDests(key, DestsOf(sub), 1, SourcesOf(sub, MIN_TRANSFER_QTY), out, MIN_TRANSFER_QTY)

-----------------------------------------------------------------------------
(* Annotation of agg with the instructions (lines 163-182) *)

TransferText(t) == <<"Transfer to ">> \o t.To \o <<" x">> \o StrOfInt(t.Qty) \o <<";", " ">>

ReceiveText(t) == <<"Receive from ">> \o t.From \o <<" x">> \o StrOfInt(t.Qty) \o <<";", " ">>

\* lines 171-172 and 178-179: both branches of the conditional give x + text
\* when x is '' or not.
AppendAction(x, text) == IF x # <<>> THEN x \o text ELSE text

\* lines 174-175 and 181-182
AppendPartner(x, name) == IF x # <<>> THEN x \o name \o <<",">> ELSE name

\* lines 164-166
WithEmptySuggestions(r) ==
    [Key |-> r.Key, Branch |-> r.Branch, SystemQty |-> r.SystemQty,
     DisplayQty |-> r.DisplayQty, Backstock |-> r.Backstock, Need |-> r.Need,
     Surplus |-> r.Surplus,
     SuggestedAction |-> <<>>, SuggestedTransferQty |-> 0, SuggestedPartner |-> <<>>]

\* lines 170-175: the rows the source mask selects
AnnotateSource(a, t) ==
    [i \in 1..Len(a) |->
        IF a[i].Key = t.Key /\ a[i].Branch = t.From
        THEN [a[i] EXCEPT !.SuggestedAction = AppendAction(@, TransferText(t)),
                          !.SuggestedTransferQty = @ + t.Qty,
                          !.SuggestedPartner = AppendPartner(@, t.To)]
        ELSE a[i]]

\* lines 177-182: the rows the destination mask selects
AnnotateDest(a, t) ==
    [i \in 1..Len(a) |->
        IF a[i].Key = t.Key /\ a[i].Branch = t.To
        THEN [a[i] EXCEPT !.SuggestedAction = AppendAction(@, ReceiveText(t)),
                          !.SuggestedTransferQty = @ + t.Qty,
                          !.SuggestedPartner = AppendPartner(@, t.From)]
        ELSE a[i]]

RECURSIVE AnnotateAll(_, _)
\* the loop of line 169
AnnotateAll(a, ts) ==
    IF ts = <<>> THEN a
    ELSE AnnotateAll(AnnotateDest(AnnotateSource(a, Head(ts)), Head(ts)), Tail(ts))

-----------------------------------------------------------------------------
(* Sku Flag and Action (lines 184-234).  In the sentences below "--" stands *)
(* for the dash (U+2014) the code writes.                                   *)

FlagOverstock == <<"Overstock", " -- keep or transfer">>

FlagNeedStock == <<"Need stock", " -- consider PO">>

FlagBalanced == <<"Balanced">>

ActionOverstock == <<"Review Overstock -- Consider markdown or future transfer">>

ActionCreatePO == <<"Create PO -- Replenish stock for this SKU">>

ActionNone == <<"No action needed">>

ActionReview == <<"Review">>

unified_flag_loose(row) ==
    LET sa == strip(row.SuggestedAction)
    IN  IF sa # <<>> THEN rstrip(sa, {";", " "})
        ELSE IF row.Surplus > 0 THEN FlagOverstock
        ELSE IF row.Need > 0 THEN FlagNeedStock
        ELSE FlagBalanced

\* lines 185-193
unified_flag(row) ==
    LET sa == strip(row.SuggestedAction)
    IN  IF sa # <<>> THEN rstrip(sa, {";", " "})
        ELSE IF row.Surplus > 0 /\ row.Need = 0 THEN FlagOverstock
        ELSE IF row.Need > 0 /\ row.Surplus = 0 THEN FlagNeedStock
        ELSE FlagBalanced

\* str.startswith for a phrase the texts keep as one element
StartsWith(s, phrase) == s # <<>> /\ Head(s) = phrase

\* rsplit(' x', 1): the text before and after the last " x", or none
HasQtyMark(inst) == \E i \in 1..Len(inst) : inst[i] = " x"

LastQtyMark(inst) == CHOOSE i \in 1..Len(inst) :
                        inst[i] = " x" /\ \A j \in (i + 1)..Len(inst) : inst[j] # " x"

\* left.replace(phrase, '')
RemovePhrase(s, phrase) == SelectSeq(s, LAMBDA c : c # phrase)

\* lines 206-222, for one of the two instruction forms
RenderInstruction(inst, phrase, label, verb, link) ==
    IF HasQtyMark(inst)
    THEN LET k      == LastQtyMark(inst)
             left   == SubSeq(inst, 1, k - 1)
             branch == strip(RemovePhrase(left, phrase))
             qty    == strip(SubSeq(inst, k + 1, Len(inst)))
         IN  <<label, verb>> \o qty \o <<link>> \o branch
    ELSE <<label>> \o inst

\* lines 198-232
action_text(row) ==
    LET sa == strip(row.SuggestedAction)
    IN  IF sa # <<>>
        THEN LET inst == strip(Head(SplitOn(sa, ";", <<>>)))
             IN  IF StartsWith(lower(inst), "Transfer to ")
                 THEN RenderInstruction(inst, "Transfer to ", "Prepare Transfer -- ",
                                        "Move ", " units to ")
                 ELSE IF StartsWith(lower(inst), "Receive from ")
                 THEN RenderInstruction(inst, "Receive from ", "Prepare Receiving -- ",
                                        "Expect ", " units from ")
                 ELSE sa
        ELSE IF StartsWith(row.SkuFlag, "Overstock") THEN ActionOverstock
        ELSE IF StartsWith(row.SkuFlag, "Need stock") THEN ActionCreatePO
        ELSE IF row.SkuFlag = FlagBalanced THEN ActionNone
        ELSE ActionReview

WithFlag(r) ==
    [Key |-> r.Key, Branch |-> r.Branch, SystemQty |-> r.SystemQty,
     DisplayQty |-> r.DisplayQty, Backstock |-> r.Backstock, Need |-> r.Need,
     Surplus |-> r.Surplus, SuggestedAction |-> r.SuggestedAction,
     SuggestedTransferQty |-> r.SuggestedTransferQty,
     SuggestedPartner |-> r.SuggestedPartner,
     SkuFlag |-> unified_flag(r)]

WithAction(r) ==
    [Key |-> r.Key, Branch |-> r.Branch, SystemQty |-> r.SystemQty,
     DisplayQty |-> r.DisplayQty, Backstock |-> r.Backstock, Need |-> r.Need,
     Surplus |-> r.Surplus, SuggestedAction |-> r.SuggestedAction,
     SuggestedTransferQty |-> r.SuggestedTransferQty,
     SuggestedPartner |-> r.SuggestedPartner,
     SkuFlag |-> r.SkuFlag, Action |-> action_text(r)]

\* lines 237-246: the columns of the returned table (Key is not among them)
FinalRow(r) ==
    [Branch |-> r.Branch, SystemQty |-> r.SystemQty,
     DisplayQty |-> r.DisplayQty, Backstock |-> r.Backstock, Need |-> r.Need,
     Surplus |-> r.Surplus, SkuFlag |-> r.SkuFlag,
     SuggestedTransferQty |-> r.SuggestedTransferQty,
     SuggestedPartner |-> r.SuggestedPartner, Action |-> r.Action]

-----------------------------------------------------------------------------
(* The uploaded tables *)

NoneFile == [kind |-> "none"]

\* a file neither reader can parse (lines 45-51)
UnreadableFile == [kind |-> "unreadable"]

\* a file read into a table; a row holds a cell for each data column, and
\* the cells of a column the table does not have are never read
Table(cols, rows) == [kind |-> "table", columns |-> cols, rows |-> rows]

Row(b, bc, q) == [branch_name |-> b, barcodes |-> bc, available_quantity |-> q]

\* line 60
required == <<"name_en", "branch_name", "barcodes", "available_quantity">>

RequiredSet == {required[i] : i \in 1..Len(required)}

Params(dt, bs, m) == [DISPLAY_TARGET |-> dt, BACKSTOCK_SAFETY |-> bs, MIN_TRANSFER_QTY |-> m]

\* the values the form starts with (ui.py lines 16-20)
DefaultParams == Params(1, 2, 1)

SeqsUpTo(S, lo, hi) == UNION {[1..n -> S] : n \in lo..hi}

\* Bounds of the inputs
MaxFiles == 2
MaxRows == 3
MaxCellRows == 2
MaxQty == 10
MaxNegQty == 2
MaxDisplayTarget == 3
MaxBackstockSafety == 3
MaxMinTransfer == 3

BranchA == <<"A">>
BranchB == <<"B">>
BranchC == <<"C">>

OneBarcode == <<"1">>

\* Uploads that differ in their columns: up to MaxFiles files, each missing,
\* unreadable, a table of headers only, or a one-row table with any subset of
\* the required columns.
ColumnFiles ==
    {NoneFile, UnreadableFile, Table(RequiredSet, <<>>)}
    \cup {Table(cols, <<Row(BranchA, OneBarcode, <<"7">>)>>) : cols \in SUBSET RequiredSet}

ColumnInputs ==
    {[files |-> fs, params |-> DefaultParams] : fs \in SeqsUpTo(ColumnFiles, 0, MaxFiles)}

\* One record, any quantity cell and any display target and safety.
QuantityCells ==
    {StrOfInt(q) : q \in (0 - MaxNegQty)..MaxQty} \cup {NaN, <<"a">>, <<>>}

SingleRecordInputs ==
    {[files |-> <<Table(RequiredSet, <<Row(BranchA, OneBarcode, q)>>)>>,
      params |-> Params(dt, bs, 1)] :
        q \in QuantityCells, dt \in 0..MaxDisplayTarget, bs \in 0..MaxBackstockSafety}

\* One record for each of three branches of one product, any quantities and
\* any minimum transfer quantity.
ThreeBranchInputs ==
    {[files |-> <<Table(RequiredSet, <<Row(BranchA, OneBarcode, StrOfInt(qa)),
                                       Row(BranchB, OneBarcode, StrOfInt(qb)),
                                       Row(BranchC, OneBarcode, StrOfInt(qc))>>)>>,
      params |-> Params(1, 4, m)] :
        qa \in 0..MaxQty, qb \in 0..MaxQty, qc \in 0..MaxQty, m \in 1..MaxMinTransfer}

\* Up to MaxRows records of one product in any order of the branches, several
\* of one branch included; with the default target and safety a quantity of 1
\* is a Need of 2 and a quantity of 4 a Surplus of 1.
RepeatedRows ==
    {Row(b, OneBarcode, q) : b \in {BranchA, BranchB, BranchC}, q \in {<<"1">>, <<"4">>}}

RepeatedBranchInputs ==
    {[files |-> <<Table(RequiredSet, rows)>>, params |-> Params(1, 2, m)] :
        rows \in SeqsUpTo(RepeatedRows, 1, MaxRows), m \in {1, 2}}

\* Up to MaxCellRows records with the barcode and branch cells varied: no
\* cell, only separators, one token, two tokens of one key, of two keys, two
\* spellings of a key without digits.
BarcodeCells ==
    {NaN,
     <<" ", ",", " ">>,
     <<"1">>,
     <<"0", "1", ";", "1">>,
     <<"1", "|", "2">>,
     <<"a", "/", " ", "A">>}

CellRows == {Row(b, c, <<"5">>) : b \in {BranchA, NaN}, c \in BarcodeCells}

CellInputs ==
    {[files |-> <<Table(RequiredSet, rows)>>, params |-> DefaultParams] :
        rows \in SeqsUpTo(CellRows, 1, MaxCellRows)}

Inputs ==
    ColumnInputs \cup SingleRecordInputs \cup ThreeBranchInputs
    \cup RepeatedBranchInputs \cup CellInputs

-----------------------------------------------------------------------------
(* process_combined_sheet *)

NoError == [type |-> "none"]

EmptyFrame == [columns |-> {}, rows |-> <<>>]

Init ==
    /\ \E in \in Inputs : uploaded_files = in.files /\ params = in.params
    /\ pc = "read"
    /\ df = EmptyFrame
    /\ rec = <<>>
    /\ agg = <<>>
    /\ transfers = <<>>
    /\ ki = 1
    /\ final = <<>>
    /\ error = NoError

\* frames: the tables read from the files that are not None (lines 35-52)
Frames(files) == SelectSeq(files, LAMBDA f : f.kind = "table")

\* a row of a frame inside the merged table: a column the frame lacks is NaN
FilledRow(f, r) ==
    [c \in {"branch_name", "barcodes", "available_quantity"} |->
        IF c \in f.columns THEN r[c] ELSE NaN]

RECURSIVE ConcatRows(_)
ConcatRows(frames) ==
    IF frames = <<>> THEN <<>>
    ELSE LET f == Head(frames)
         IN  [i \in 1..Len(f.rows) |-> FilledRow(f, f.rows[i])] \o ConcatRows(Tail(frames))

\* pd.concat(frames, ignore_index=True, sort=False) (line 57)
Concat(frames) ==
    [columns |-> UNION {frames[i].columns : i \in 1..Len(frames)},
     rows    |-> ConcatRows(frames)]

MissingColumnsFirstOnly(columns) ==
    LET missing == SelectSeq(required, LAMBDA c : c \notin columns)
    IN  IF missing = <<>> THEN <<>> ELSE <<Head(missing)>>

\* line 61
MissingColumns(columns) == SelectSeq(required, LAMBDA c : c \notin columns)

\* lines 35-57
ReadFiles ==
    /\ pc = "read"
    /\ IF \E i \in 1..Len(uploaded_files) : uploaded_files[i].kind = "unreadable"
       THEN /\ pc' = "error"
            /\ error' = [type |-> "RuntimeError"]
            /\ UNCHANGED df
       ELSE IF Frames(uploaded_files) = <<>>
       THEN /\ pc' = "done"
            /\ UNCHANGED <<df, error>>
       ELSE /\ pc' = "validate"
            /\ df' = Concat(Frames(uploaded_files))
            /\ UNCHANGED error
    /\ UNCHANGED <<uploaded_files, params, rec, agg, transfers, ki, final>>

\* lines 59-63
ValidateColumns ==
    /\ pc = "validate"
    /\ LET missing == MissingColumns(df.columns)
       IN  IF missing # <<>>
           THEN /\ pc' = "error"
                /\ error' = [type |-> "ValueError", missing |-> missing,
                              expected |-> required]
           ELSE /\ pc' = "quantities"
                /\ UNCHANGED error
    /\ UNCHANGED <<uploaded_files, params, df, rec, agg, transfers, ki, final>>

\* lines 65-87
ComputeQuantities ==
    /\ pc = "quantities"
    /\ df' = [df EXCEPT !.rows = [i \in 1..Len(df.rows) |-> WithQuantities(df.rows[i], params)]]
    /\ pc' = "expand"
    /\ UNCHANGED <<uploaded_files, params, rec, agg, transfers, ki, final, error>>

\* lines 89-126
ExpandBarcodes ==
    /\ pc = "expand"
    /\ rec' = ExpandRows(df.rows)
    /\ pc' = IF rec' = <<>> THEN "done" ELSE "aggregate"
    /\ UNCHANGED <<uploaded_files, params, df, agg, transfers, ki, final, error>>

\* lines 128-142
Aggregate ==
    /\ pc = "aggregate"
    /\ agg' = Aggregated(rec)
    /\ transfers' = <<>>
    /\ ki' = 1
    /\ pc' = "match"
    /\ UNCHANGED <<uploaded_files, params, df, rec, final, error>>

\* one iteration of the loop of line 143 (lines 143-159)
MatchKey ==
    /\ pc = "match"
    /\ ki <= Len(AggKeys(agg))
    /\ transfers' = MatchOneKey(agg, AggKeys(agg)[ki], transfers, params.MIN_TRANSFER_QTY)
    /\ ki' = ki + 1
    /\ UNCHANGED <<pc, uploaded_files, params, df, rec, agg, final, error>>

\* lines 161-182
Annotate ==
    /\ pc = "match"
    /\ ki > Len(AggKeys(agg))
    /\ agg' = AnnotateAll([i \in 1..Len(agg) |-> WithEmptySuggestions(agg[i])], transfers)
    /\ pc' = "flag"
    /\ UNCHANGED <<uploaded_files, params, df, rec, transfers, ki, final, error>>

\* lines 184-195
SkuFlag ==
    /\ pc = "flag"
    /\ agg' = [i \in 1..Len(agg) |-> WithFlag(agg[i])]
    /\ pc' = "action"
    /\ UNCHANGED <<uploaded_files, params, df, rec, transfers, ki, final, error>>

\* lines 197-234
ActionColumn ==
    /\ pc = "action"
    /\ agg' = [i \in 1..Len(agg) |-> WithAction(agg[i])]
    /\ pc' = "return"
    /\ UNCHANGED <<uploaded_files, params, df, rec, transfers, ki, final, error>>

\* lines 236-248
Return ==
    /\ pc = "return"
    /\ final' = [i \in 1..Len(agg) |-> FinalRow(agg[i])]
    /\ pc' = "done"
    /\ UNCHANGED <<uploaded_files, params, df, rec, agg, transfers, ki, error>>

Next ==
    \/ ReadFiles
    \/ ValidateColumns
    \/ ComputeQuantities
    \/ ExpandBarcodes
    \/ Aggregate
    \/ MatchKey
    \/ Annotate
    \/ SkuFlag
    \/ ActionColumn
    \/ Return

Spec == Init /\ [][Next]_vars

-----------------------------------------------------------------------------
(* Quantities the properties below speak of *)

RECURSIVE QtyFrom(_, _, _)
\* total Qty of the instructions of key k whose From is b
QtyFrom(ts, k, b) ==
    IF ts = <<>> THEN 0
    ELSE (IF Head(ts).Key = k /\ Head(ts).From = b THEN Head(ts).Qty ELSE 0)
         + QtyFrom(Tail(ts), k, b)

RECURSIVE QtyTo(_, _, _)
\* total Qty of the instructions of key k whose To is b
QtyTo(ts, k, b) ==
    IF ts = <<>> THEN 0
    ELSE (IF Head(ts).Key = k /\ Head(ts).To = b THEN Head(ts).Qty ELSE 0)
         + QtyTo(Tail(ts), k, b)

RECURSIVE QtyOfKey(_, _)
QtyOfKey(ts, k) ==
    IF ts = <<>> THEN 0
    ELSE (IF Head(ts).Key = k THEN Head(ts).Qty ELSE 0) + QtyOfKey(Tail(ts), k)

RECURSIVE TotalOfKey(_, _, _)
\* the sum of column col over the aggregated rows of key k
TotalOfKey(a, k, col) ==
    IF a = <<>> THEN 0
    ELSE (IF Head(a).Key = k THEN Head(a)[col] ELSE 0) + TotalOfKey(Tail(a), k, col)

RowIndices == 1..Len(agg)

TransferIndices == 1..Len(transfers)

KeysOfAgg == {agg[i].Key : i \in RowIndices}

HasRow(k, b) == \E i \in RowIndices : agg[i].Key = k /\ agg[i].Branch = b

\* what is left of a row's Surplus and Need after the instructions so far
SurplusLeft(i) == agg[i].Surplus - QtyFrom(transfers, agg[i].Key, agg[i].Branch)

NeedLeft(i) == agg[i].Need - QtyTo(transfers, agg[i].Key, agg[i].Branch)

Touched(i) ==
    \E n \in TransferIndices :
        /\ transfers[n].Key = agg[i].Key
        /\ transfers[n].From = agg[i].Branch \/ transfers[n].To = agg[i].Branch

\* the keys whose iteration of the matcher loop has ended
MatchedKeys ==
    IF pc = "match" THEN {AggKeys(agg)[i] : i \in 1..(ki - 1)} ELSE KeysOfAgg

Annotated == pc \in {"flag", "action", "return", "done"}

Flagged == pc \in {"return", "done"}

\* the position of the first record of the group of row i among the records
FirstSeen(i) ==
    CHOOSE n \in 1..Len(rec) :
        /\ Group(rec[n]) = Group(agg[i])
        /\ \A m \in 1..(n - 1) : Group(rec[m]) # Group(agg[i])

-----------------------------------------------------------------------------
(* C1  Matcher conservation: at every point of a run and for every key, the *)
(* instructions name branches that have an aggregated row of the key, the   *)
(* total Qty sent from a branch is at most its aggregated Surplus, the      *)
(* total Qty received by a branch is at most its aggregated Need, and the   *)
(* total Qty of the key is at most min(total Surplus, total Need).          *)
MatcherConservation ==
    /\ \A n \in TransferIndices :
          /\ HasRow(transfers[n].Key, transfers[n].From)
          /\ HasRow(transfers[n].Key, transfers[n].To)
          /\ transfers[n].Qty >= 1
    /\ \A i \in RowIndices : SurplusLeft(i) >= 0 /\ NeedLeft(i) >= 0
    /\ \A k \in KeysOfAgg :
          QtyOfKey(transfers, k)
              <= Min(TotalOfKey(agg, k, "Surplus"), TotalOfKey(agg, k, "Need"))

\* A finished run in which one source was emptied by two instructions while a
\* destination stayed short.
MatcherConservationWitness ==
    /\ pc = "done"
    /\ \E i, j \in RowIndices :
          /\ agg[i].Key = agg[j].Key
          /\ agg[i].Surplus > 0 /\ SurplusLeft(i) = 0
          /\ Cardinality({n \in TransferIndices : transfers[n].From = agg[i].Branch}) >= 2
          /\ QtyTo(transfers, agg[j].Key, agg[j].Branch) > 0 /\ NeedLeft(j) > 0

(* C2  Minimum threshold: every instruction has Qty >= MIN_TRANSFER_QTY, its *)
(* From branch has an aggregated Surplus >= MIN_TRANSFER_QTY for the key and *)
(* its To branch an aggregated Need >= MIN_TRANSFER_QTY.                     *)
MinimumThreshold ==
    /\ \A n \in TransferIndices : transfers[n].Qty >= params.MIN_TRANSFER_QTY
    /\ \A i \in RowIndices :
          /\ agg[i].Surplus < params.MIN_TRANSFER_QTY
                => QtyFrom(transfers, agg[i].Key, agg[i].Branch) = 0
          /\ agg[i].Need < params.MIN_TRANSFER_QTY
                => QtyTo(transfers, agg[i].Key, agg[i].Branch) = 0

\* A finished run with a minimum above 1 that moved stock although one branch
\* had a Surplus and another a Need below the minimum.
MinimumThresholdWitness ==
    /\ pc = "done"
    /\ params.MIN_TRANSFER_QTY >= 2
    /\ transfers # <<>>
    /\ \E i \in RowIndices : agg[i].Surplus > 0 /\ agg[i].Surplus < params.MIN_TRANSFER_QTY
    /\ \E i \in RowIndices : NeedLeft(i) > 0 /\ NeedLeft(i) < params.MIN_TRANSFER_QTY

(* C3  No self-transfer: no instruction has From equal to To.               *)
NoSelfTransfer ==
    \A n \in TransferIndices : transfers[n].From # transfers[n].To

RECURSIVE SumColumn(_, _)
SumColumn(a, col) == IF a = <<>> THEN 0 ELSE Head(a)[col] + SumColumn(Tail(a), col)

RECURSIVE ExpectedSystemQty(_)
ExpectedSystemQty(rows) ==
    IF rows = <<>> THEN 0
    ELSE to_numeric(Head(rows).available_quantity)
             * Max(Len(split_barcodes(Head(rows).barcodes)), 1)
         + ExpectedSystemQty(Tail(rows))

Aggregation == pc \in {"match", "flag", "action", "return", "done"}

(* C4  Partition invariant: once the rows are aggregated, the System Qty of *)
(* the aggregated rows sums to the sum, over the input records, of the      *)
(* quantity times the number of barcode tokens (1 when there is none).      *)
PartitionInvariant ==
    Aggregation => SumColumn(agg, "SystemQty") = ExpectedSystemQty(df.rows)

(* C5 as stated  Encounter-order service: the aggregated rows are in the    *)
(* order their groups are first seen among the records; and of two rows of  *)
(* one key, once the key is matched, the later-seen one has received        *)
(* (sent) stock only if the first-seen one is left with a Need (Surplus)    *)
(* below MIN_TRANSFER_QTY.                                                   *)
EncounterOrderService ==
    /\ \A i, j \in RowIndices : i < j => FirstSeen(i) < FirstSeen(j)
    /\ \A i, j \in RowIndices :
          (agg[i].Key = agg[j].Key /\ agg[i].Key \in MatchedKeys /\ FirstSeen(i) < FirstSeen(j))
          => /\ QtyTo(transfers, agg[j].Key, agg[j].Branch) > 0
                    => NeedLeft(i) < params.MIN_TRANSFER_QTY
             /\ QtyFrom(transfers, agg[j].Key, agg[j].Branch) > 0
                    => SurplusLeft(i) < params.MIN_TRANSFER_QTY

(* C5 as amended  Sorted-order service: the aggregated rows are in          *)
(* ascending order of (Key, Branch), whatever the order of the input; and   *)
(* of two rows of one key, once the key is matched, the one that sorts      *)
(* later has received (sent) stock only if the one that sorts first is left *)
(* with a Need (Surplus) below MIN_TRANSFER_QTY.                             *)
SortedOrderService ==
    /\ \A i, j \in RowIndices : i < j => GroupLess(Group(agg[i]), Group(agg[j]))
    /\ \A i, j \in RowIndices :
          (agg[i].Key = agg[j].Key /\ agg[i].Key \in MatchedKeys
              /\ GroupLess(Group(agg[i]), Group(agg[j])))
          => /\ QtyTo(transfers, agg[j].Key, agg[j].Branch) > 0
                    => NeedLeft(i) < params.MIN_TRANSFER_QTY
             /\ QtyFrom(transfers, agg[j].Key, agg[j].Branch) > 0
                    => SurplusLeft(i) < params.MIN_TRANSFER_QTY

\* A finished run whose input shows a destination before another that sorts
\* first, with a surplus too small for both: the one that sorts first got
\* all there was, the one seen first got nothing.
SortedOrderServiceWitness ==
    /\ pc = "done"
    /\ \E i, j \in RowIndices :
          /\ agg[i].Key = agg[j].Key
          /\ i < j /\ FirstSeen(j) < FirstSeen(i)
          /\ QtyTo(transfers, agg[i].Key, agg[i].Branch) > 0
          /\ agg[j].Need > 0 /\ QtyTo(transfers, agg[j].Key, agg[j].Branch) = 0
          /\ \A m \in RowIndices : agg[m].Key = agg[i].Key => SurplusLeft(m) = 0
    /\ \A n \in TransferIndices : transfers[n].From # transfers[n].To

InstructionTextOf(t, b) ==
    (IF t.From = b THEN <<(<<"Transfer to ">> \o t.To \o <<" x">> \o StrOfInt(t.Qty))>> ELSE <<>>)
    \o (IF t.To = b THEN <<(<<"Receive from ">> \o t.From \o <<" x">> \o StrOfInt(t.Qty))>> ELSE <<>>)

RECURSIVE InstructionTexts(_, _, _)
InstructionTexts(ts, k, b) ==
    IF ts = <<>> THEN <<>>
    ELSE (IF Head(ts).Key = k THEN InstructionTextOf(Head(ts), b) ELSE <<>>)
         \o InstructionTexts(Tail(ts), k, b)

RECURSIVE JoinWith(_, _)
\* sep.join(texts)
JoinWith(texts, sep) ==
    IF texts = <<>> THEN <<>>
    ELSE IF Len(texts) = 1 THEN Head(texts)
    ELSE Head(texts) \o sep \o JoinWith(Tail(texts), sep)

(* C6  Flag and action of untouched rows: in the finished table a row that  *)
(* is in no instruction has Sku Flag Overstock exactly when Surplus > 0 and *)
(* Need = 0, Need stock exactly when Need > 0 and Surplus = 0, Balanced     *)
(* otherwise, with the matching Action; a row that is in some instruction   *)
(* has as Sku Flag the texts of its instructions, in instruction order,     *)
(* joined by "; ".                                                           *)
FlagAndAction ==
    Flagged =>
        \A i \in RowIndices :
            IF Touched(i)
            THEN agg[i].SkuFlag
                    = JoinWith(InstructionTexts(transfers, agg[i].Key, agg[i].Branch), <<";", " ">>)
            ELSE /\ (agg[i].SkuFlag = FlagOverstock) <=> (agg[i].Surplus > 0 /\ agg[i].Need = 0)
                 /\ (agg[i].SkuFlag = FlagNeedStock) <=> (agg[i].Need > 0 /\ agg[i].Surplus = 0)
                 /\ (agg[i].SkuFlag = FlagBalanced)
                        <=> ~(agg[i].Surplus > 0 /\ agg[i].Need = 0)
                            /\ ~(agg[i].Need > 0 /\ agg[i].Surplus = 0)
                 /\ agg[i].SkuFlag = FlagOverstock => agg[i].Action = ActionOverstock
                 /\ agg[i].SkuFlag = FlagNeedStock => agg[i].Action = ActionCreatePO
                 /\ agg[i].SkuFlag = FlagBalanced => agg[i].Action = ActionNone

\* A finished table with a row in no instruction whose Need and Surplus are
\* both positive (flagged Balanced), beside an untouched Overstock row.
FlagAndActionWitness ==
    /\ pc = "done"
    /\ \E i \in RowIndices :
          /\ ~Touched(i) /\ agg[i].Need > 0 /\ agg[i].Surplus > 0
          /\ agg[i].SkuFlag = FlagBalanced /\ agg[i].Action = ActionNone
    /\ \E i \in RowIndices :
          /\ ~Touched(i) /\ agg[i].SkuFlag = FlagOverstock /\ agg[i].Action = ActionOverstock

PartnersOf(t, b) ==
    (IF t.From = b THEN <<t.To>> ELSE <<>>) \o (IF t.To = b THEN <<t.From>> ELSE <<>>)

RECURSIVE Partners(_, _, _)
Partners(ts, k, b) ==
    IF ts = <<>> THEN <<>>
    ELSE (IF Head(ts).Key = k THEN PartnersOf(Head(ts), b) ELSE <<>>) \o Partners(Tail(ts), k, b)

(* C7  Partner list: once the instructions are folded in, the Suggested     *)
(* Partner of every row is the comma-joined list of the other branch of     *)
(* each of its instructions, in instruction order.  (Stated for the runs in *)
(* which no instruction goes from a branch to itself, so that a violation   *)
(* does not rest on such an instruction.)                                   *)
PartnerList ==
    (Annotated /\ \A n \in TransferIndices : transfers[n].From # transfers[n].To) =>
        \A i \in RowIndices :
            agg[i].SuggestedPartner = JoinWith(Partners(transfers, agg[i].Key, agg[i].Branch), <<",">>)

TablesRead ==
    /\ \A i \in 1..Len(uploaded_files) : uploaded_files[i].kind # "unreadable"
    /\ \E i \in 1..Len(uploaded_files) : uploaded_files[i].kind = "table"

AbsentRequired ==
    {c \in RequiredSet :
        \A i \in 1..Len(uploaded_files) :
            uploaded_files[i].kind = "table" => c \notin uploaded_files[i].columns}

(* C8  Missing-column precondition: the run is in the missing-column error  *)
(* only with a required column absent from every table read; the error then*)
(* lists exactly the absent required columns, each once, and nothing was    *)
(* computed, expanded, aggregated, matched or returned; and when the files  *)
(* were read and a required column is absent, the run is past validation    *)
(* only in that error.                                                       *)
MissingColumnError ==
    /\ error.type = "ValueError"
        => /\ pc = "error"
           /\ TablesRead
           /\ AbsentRequired # {}
           /\ {error.missing[i] : i \in 1..Len(error.missing)} = AbsentRequired
           /\ Len(error.missing) = Cardinality(AbsentRequired)
           /\ df.rows = ConcatRows(Frames(uploaded_files))
           /\ rec = <<>> /\ agg = <<>> /\ transfers = <<>> /\ final = <<>>
    /\ (TablesRead /\ AbsentRequired # {} /\ pc \notin {"read", "validate"})
        => error.type = "ValueError"
    /\ AbsentRequired = {} => error.type # "ValueError"

\* Two tables were merged, two required columns are in neither, and the run
\* ended in the error that names both.
MissingColumnErrorWitness ==
    /\ pc = "error"
    /\ error.type = "ValueError"
    /\ Len(Frames(uploaded_files)) = 2
    /\ Len(error.missing) = 2
    /\ Frames(uploaded_files)[1].columns # Frames(uploaded_files)[2].columns

QuantitiesComputed == pc \notin {"read", "validate", "quantities", "error"}

(* C9  Need/Surplus disjointness: every row of the merged table, once its   *)
(* quantities are computed, has Backstock >= 0 and not both Need > 0 and    *)
(* Surplus > 0.                                                              *)
NeedSurplusDisjoint ==
    QuantitiesComputed =>
        \A i \in 1..Len(df.rows) :
            /\ df.rows[i].Backstock >= 0
            /\ df.rows[i].Need > 0 => df.rows[i].Surplus = 0
            /\ df.rows[i].Surplus > 0 => df.rows[i].Need = 0

\* A record with stock between the safety and display target plus safety:
\* it needs stock, and has a positive Backstock that is no Surplus.
NeedSurplusDisjointWitness ==
    /\ QuantitiesComputed
    /\ \E i \in 1..Len(df.rows) :
          /\ df.rows[i].Need > 0
          /\ df.rows[i].Backstock > 0
          /\ df.rows[i].SystemQty > params.BACKSTOCK_SAFETY
          /\ params.BACKSTOCK_SAFETY > 0

(* C10  Greedy maximality: once a key is matched, no branch of the key is   *)
(* left with a Surplus and no branch of it with a Need whose minimum is     *)
(* MIN_TRANSFER_QTY or more; with MIN_TRANSFER_QTY = 1 the Qty moved for the*)
(* key is min(total Surplus, total Need).                                    *)
GreedyMaximality ==
    /\ \A i, j \in RowIndices :
          (agg[i].Key = agg[j].Key /\ agg[i].Key \in MatchedKeys)
              => Min(SurplusLeft(i), NeedLeft(j)) < params.MIN_TRANSFER_QTY
    /\ params.MIN_TRANSFER_QTY = 1
          => \A k \in MatchedKeys :
                QtyOfKey(transfers, k)
                    = Min(TotalOfKey(agg, k, "Surplus"), TotalOfKey(agg, k, "Need"))

\* A finished run in which a destination took stock and is still short by
\* the minimum or more, while another branch keeps a Surplus below the
\* minimum: what is left cannot be moved.
GreedyMaximalityWitness ==
    /\ pc = "done"
    /\ \E i, j \in RowIndices :
          /\ agg[i].Key = agg[j].Key
          /\ SurplusLeft(i) >= 1
          /\ NeedLeft(j) >= params.MIN_TRANSFER_QTY
          /\ QtyTo(transfers, agg[j].Key, agg[j].Branch) > 0

====
